---- MODULE Spec2Model ----
(***************************************************************************)
(* The animation core of earth-diagram: the LoadingOverlay phase machine   *)
(* (src/src/components/loadingOverlay.jsx) and the WonderCallout hover     *)
(* machine (src/src/components/wonderLabel.jsx), with the projection       *)
(* latLonToVec3 that places a callout (src/src/utils/latLongToVec.js and   *)
(* its copy in wonderLabel.jsx).                                           *)
(*                                                                         *)
(* Numbers.  The program computes in IEEE doubles; the model computes in   *)
(* fixed point.  A quantity in [0,1] (alpha, display progress, opacity,    *)
(* scale) is an integer count of 1/ONE, an interpolation factor is an      *)
(* integer count of 1/FRAC, a time is an integer count of milliseconds     *)
(* (the frame delta dt, which the program holds in seconds, too), a         *)
(* damping rate is held in 1/1000 per second and a length of the callout   *)
(* card is an integer count of 1/LEN.  Every arithmetic result is the      *)
(* exact result rounded to the nearest unit.                               *)
(*                                                                         *)
(* React.  A state setter called in a frame callback (setAlpha,            *)
(* setDisplay, setDone) is taken to have re-rendered the component before  *)
(* the next frame, so the next frame's closure reads the new state; an     *)
(* effect runs together with the change of its dependency.                 *)
(***************************************************************************)
EXTENDS Integers, Sequences, FiniteSets, TLC

ONE == 10^5          \* fixed-point 1.0 of a value
FRAC == 10^6         \* fixed-point 1.0 of an interpolation factor
LEN == 10^4          \* fixed-point 1.0 of a length of the callout card

\* ---------------------------------------------------------------- bounds
MaxTicks == 5        \* frames per behaviour of Spec

\* Frame deltas (ms): a repeated frame, a 60 Hz frame, a stalled tab.
DtSet == {0, 16, 1000}

\* Raw progress values useProgress reports (percent).
ProgressSet == {0, 100}

MaxCalloutTicks == 6 \* frames per behaviour of CalloutSpec

MaxFrames == 3       \* frames per behaviour of FrameSpec

\* Text blocks troika measures, <<width, height>> in 1/LEN: a short
\* one-line name, a long two-line one, and the long one laid out wider.
TextBlocks == {<<4400, 1200>>, <<9000, 2500>>, <<9600, 2500>>}

\* Natural sizes of loaded images, <<width, height>> in pixels.
ImageSizes == {<<4, 3>>, <<1, 1>>}

\* ------------------------------------------------------------ arithmetic
Abs(x) == IF x < 0 THEN -x ELSE x
Min(x, y) == IF x < y THEN x ELSE y
Max(x, y) == IF x > y THEN x ELSE y

\* a * f / FRAC rounded to nearest, for 0 <= f <= FRAC, without leaving
\* 32 bits: f = fh * 1000 + fl.  A function, so that an argument is
\* evaluated once.
MulFn[a \in Int, f \in Int] ==
    LET fh == f \div 1000
        fl == f % 1000
        hi == a * fh
    IN  (hi \div 1000) + (((hi % 1000) * 1000 + a * fl + (FRAC \div 2)) \div FRAC)

MulF(a, f) == MulFn[a, f]

\* exp(-2^i / 10000) in 1/FRAC, i = 0..17
ExpBit(i) ==
    CASE i = 0 -> 999900 [] i = 1 -> 999800 [] i = 2 -> 999600
      [] i = 3 -> 999200 [] i = 4 -> 998401 [] i = 5 -> 996805
      [] i = 6 -> 993620 [] i = 7 -> 987282 [] i = 8 -> 974725
      [] i = 9 -> 950089 [] i = 10 -> 902668 [] i = 11 -> 814810
      [] i = 12 -> 663916 [] i = 13 -> 440784 [] i = 14 -> 194291
      [] i = 15 -> 37749 [] i = 16 -> 1425 [] i = 17 -> 2

\* The product of the factors ExpBit(j) of the binary digits of x, from
\* digit i on, times acc.
ExpProdFn[x \in Nat, i \in Nat, acc \in Nat] ==
    IF x = 0 THEN acc
    ELSE ExpProdFn[x \div 2, i + 1, IF x % 2 = 1 THEN MulF(acc, ExpBit(i)) ELSE acc]

ExpProd(x, i, acc) == ExpProdFn[x, i, acc]

\* Math.exp(-x / 10000) in 1/FRAC, for x >= 0 (below 1/FRAC from x = 2^18 on)
ExpNeg(x) == IF x >= 262144 THEN 0 ELSE ExpProd(x, 0, FRAC)

\* Mutant of Lerp: the factor left off the second term, (1 - t) * x + y.
LerpForgotT(x, y, t) == MulF(x, FRAC - t) + y

\* THREE.MathUtils.lerp(x, y, t) = (1 - t) * x + t * y, t in 1/FRAC
Lerp(x, y, t) == x + MulF(y - x, t)

\* lambda * dt, lambda in 1/1000 per second, dt in ms, result in 1/10000
RateTimesDt(lambda, dt) == (lambda \div 100) * dt + (((lambda % 100) * dt) \div 100)

\* Mutant of Damp: twice the step.
DampTwice(x, y, lambda, dt) ==
    Lerp(x, y, 2 * (FRAC - ExpNeg(RateTimesDt(lambda, dt))))

\* THREE.MathUtils.damp(x, y, lambda, dt) = lerp(x, y, 1 - exp(-lambda * dt))
Damp(x, y, lambda, dt) == Lerp(x, y, FRAC - ExpNeg(RateTimesDt(lambda, dt)))

\* ------------------------------------------------------ LoadingOverlay
smoothFactor == 8
loadingCap == 96000
exposureFrom == 60000
exposureTo == 300000
InitialExposure == 300000      \* gl.toneMappingExposure = 3 in Canvas onCreated
StateEps == ONE \div 10000     \* 0.0001: a setter is called past this change
DoneEps == ONE \div 100        \* 0.01: the end condition

\* The props the overlay is mounted with (delay and fade in ms): the
\* defaults, the first overlay of App.jsx kept mounted, and snap timings.
Props ==
    { [delay |-> 600, fade |-> 1600, unmountOnEnd |-> TRUE, animateExposure |-> FALSE],
      [delay |-> 200, fade |-> 600, unmountOnEnd |-> FALSE, animateExposure |-> TRUE],
      [delay |-> 0, fade |-> 0, unmountOnEnd |-> TRUE, animateExposure |-> TRUE] }

\* Props with durations that are not positive: both negative, delay 0 with
\* the default fade, fade 0 with the default delay.
SnapProps ==
    { [delay |-> -200, fade |-> -500, unmountOnEnd |-> TRUE, animateExposure |-> TRUE],
      [delay |-> 0, fade |-> 1600, unmountOnEnd |-> FALSE, animateExposure |-> FALSE],
      [delay |-> 600, fade |-> 0, unmountOnEnd |-> FALSE, animateExposure |-> TRUE] }

VARIABLES
    props,        \* the component's props, fixed at mount
    active,       \* useProgress().active
    progress,     \* useProgress().progress, 0..100
    alpha,        \* React state alpha
    done,         \* React state done
    phase,        \* phase.current
    holdUntil,    \* holdUntil.current (ms)
    displayRef,   \* displayRef.current
    display,      \* React state display
    uAlpha,       \* uniforms.uAlpha.value
    exposure,     \* gl.toneMappingExposure
    now,          \* performance.now() (ms)
    ticks,        \* frames so far
    holdEntered,  \* history: the clock at the latest entry into hold
    finished,     \* history: how many times setDone(true) was called
    rawSeen,      \* history: the progress the latest unskipped frame read
    wasInactive   \* history: active has been false at some time since mount

VARIABLES
    hovered,         \* React state hovered
    baseSize,        \* React state baseSize, <<w, h>> of the text block
    imgAspect,       \* React state imgAspect, as <<width, height>>
    open,            \* open.current
    imgOpacity,      \* imgOpacity.current
    imgScale,        \* imgScale.current
    titleScale,      \* titleScale.current
    lineOpacity,     \* lineOpacity.current
    bgScaleX,        \* bgMeshRef.current.scale.x
    bgScaleY,        \* bgMeshRef.current.scale.y
    bgPosY,          \* bgMeshRef.current.position.y, in 1/ONE
    imgMatOpacity,   \* imgRef.current.material.opacity
    anchorScale,     \* imgAnchorRef.current.scale x and y
    titleGroupScale, \* titleGroupRef.current.scale
    linePinOpacity,  \* the opacity of the leader line and of the pin
    cticks           \* callout frames so far

VARIABLES
    coords,          \* the arguments lat, lon (degrees), radius, altitude (1/LEN)
    surface,         \* latLonToVec3 of wonderLabel.jsx applied to them
    point            \* latLonToVec3 of utils/latLongToVec.js applied to them

pvars == <<coords, surface, point>>

cvars == <<hovered, baseSize, imgAspect, open, imgOpacity, imgScale, titleScale,
           lineOpacity, bgScaleX, bgScaleY, bgPosY, imgMatOpacity, anchorScale,
           titleGroupScale, linePinOpacity, cticks>>

ovars == <<props, active, progress, alpha, done, phase, holdUntil, displayRef,
           display, uAlpha, exposure, now, ticks, holdEntered, finished,
           rawSeen, wasInactive>>

\* Mutant of EffectPhase: the effect without its re-entry branch.
EffectPhaseNoReentry(a, ph) == IF ~a /\ ph = "loading" THEN "hold" ELSE ph

\* Mutant of EffectHoldUntil: the deadline written on the first hold only.
EffectHoldUntilStale(a, ph, t, hu) ==
    IF ~a /\ ph = "loading" /\ hu = 0 THEN t + props.delay ELSE hu

\* useEffect([active, delay]) for the value a of active and the phase ph,
\* run at clock t (lines 57-66): the new phase and the new deadline.
EffectPhase(a, ph) ==
    IF ~a /\ ph = "loading" THEN "hold"
    ELSE IF a /\ ph # "loading" THEN "loading"
    ELSE ph

EffectHoldUntil(a, ph, t, hu) ==
    IF ~a /\ ph = "loading" THEN t + props.delay ELSE hu

\* State after construction and the mount effect, with props from P.
OverlayInitWith(P) ==
    /\ props \in P
    /\ active \in BOOLEAN
    /\ progress = 0
    /\ alpha = ONE
    /\ done = FALSE
    /\ phase = EffectPhase(active, "loading")
    /\ holdUntil = EffectHoldUntil(active, "loading", 0, 0)
    /\ displayRef = 0
    /\ display = 0
    /\ uAlpha = ONE
    /\ exposure = InitialExposure
    /\ now = 0
    /\ ticks = 0
    /\ holdEntered = 0
    /\ finished = 0
    /\ rawSeen = 0
    /\ wasInactive = ~active

OverlayInit == OverlayInitWith(Props)

\* useProgress reports a change of active; the effect runs.
ActiveChanged ==
    /\ active' = ~active
    /\ phase' = EffectPhase(active', phase)
    /\ holdUntil' = EffectHoldUntil(active', phase, now, holdUntil)
    /\ holdEntered' = IF phase' = "hold" /\ phase # "hold" THEN now ELSE holdEntered
    /\ wasInactive' = (wasInactive \/ ~active')
    /\ UNCHANGED <<props, progress, alpha, done, displayRef, display, uAlpha,
                   exposure, now, ticks, finished, rawSeen>>
    /\ UNCHANGED cvars
    /\ UNCHANGED pvars

\* useProgress reports another progress value.
ProgressChanged ==
    /\ \E p \in ProgressSet : p # progress /\ progress' = p
    /\ UNCHANGED <<props, active, alpha, done, phase, holdUntil, displayRef,
                   display, uAlpha, exposure, now, ticks, holdEntered, finished,
                   rawSeen, wasInactive>>
    /\ UNCHANGED cvars
    /\ UNCHANGED pvars

\* Mutants of TargetWhileActive: without the previous display; without the cap.
TargetWhileActiveNoMax == Min(loadingCap, (progress * ONE) \div 100)
TargetWhileActiveNoCap == Max((progress * ONE) \div 100, displayRef)

\* Mutant of PhaseAfterHold: the deadline checked in any phase.
PhaseAfterHoldAnyPhase(t) == IF t >= holdUntil THEN "fading" ELSE phase

\* Mutant of TargetAlpha: hold fades like fading.
TargetAlphaHoldFades(ph) == IF ph = "loading" THEN ONE ELSE 0

\* Mutant of Skipped: the early return taken only while the phase is done.
SkippedInDonePhase == done /\ props.unmountOnEnd /\ phase = "done"

\* Mutant of Skipped: no early return.
SkippedNever == FALSE

\* --- the useFrame callback (lines 68-108), frame delta dt, clock t -------
\* if (Math.abs(v - state) > 0.0001) setState(v): the state after the frame
Stored(state, v) == IF Abs(v - state) > StateEps THEN v ELSE state

\* displayRef.current after a frame of delta dt that damps it from x toward
\* the target T (lines 78-79).
DisplayAfter(x, T, dt) == Damp(x, T, smoothFactor * 1000, dt)

Raw == (progress * ONE) \div 100
TargetWhileActive == Min(loadingCap, Max(Raw, displayRef))
DisplayTarget == IF active THEN TargetWhileActive ELSE ONE
NextDisplay(dt) == DisplayAfter(displayRef, DisplayTarget, dt)

PhaseAfterHold(t) ==
    IF phase = "hold" /\ t >= holdUntil THEN "fading" ELSE phase

\* Mutant of FadeRate: a slow rate, not the snap, for a fade that is not
\* positive.
FadeRateNoSnap == IF props.fade > 0 THEN 3000000 \div props.fade ELSE 1000

FadeRate == IF props.fade > 0 THEN 3000000 \div props.fade ELSE 9999000
TargetAlpha(ph) == IF ph = "loading" \/ ph = "hold" THEN ONE ELSE 0

\* The alpha state after a frame of delta dt that damps it from x toward the
\* target T (lines 91-95).
AlphaAfter(x, T, dt) == Stored(x, Damp(x, T, FadeRate, dt))
NextAlpha(dt, t) == Damp(alpha, TargetAlpha(PhaseAfterHold(t)), FadeRate, dt)

\* Mutant of ExposureFor: the ramp taken along alpha, not along 1 - alpha.
ExposureForAlpha(a) == Lerp(exposureFrom, exposureTo, a * (FRAC \div ONE))

\* lerp(exposureFrom, exposureTo, 1 - a)
ExposureFor(a) == Lerp(exposureFrom, exposureTo, (ONE - a) * (FRAC \div ONE))

Skipped == done /\ props.unmountOnEnd

FrameBody(dt, t) ==
    IF Skipped
    THEN UNCHANGED <<alpha, done, phase, displayRef, display, uAlpha, exposure,
                     finished, rawSeen>>
    ELSE LET next == NextDisplay(dt)
             ph == PhaseAfterHold(t)
             a == NextAlpha(dt, t)
             ends == ph = "fading" /\ a < DoneEps
         IN  /\ displayRef' = next
             /\ display' = Stored(display, next)
             /\ uAlpha' = a
             /\ alpha' = AlphaAfter(alpha, TargetAlpha(ph), dt)
             /\ exposure' = IF props.animateExposure THEN ExposureFor(a) ELSE exposure
             /\ phase' = IF ends THEN "done" ELSE ph
             /\ done' = IF ends /\ props.unmountOnEnd THEN TRUE ELSE done
             /\ finished' = IF ends /\ props.unmountOnEnd THEN finished + 1 ELSE finished
             /\ rawSeen' = progress

Tick ==
    /\ ticks < MaxTicks
    /\ \E dt \in DtSet :
          /\ now' = now + dt
          /\ FrameBody(dt, now + dt)
    /\ ticks' = ticks + 1
    /\ UNCHANGED <<props, active, progress, holdUntil, holdEntered, wasInactive>>
    /\ UNCHANGED cvars
    /\ UNCHANGED pvars

vars == <<ovars, cvars, pvars>>

\* ------------------------------------------------------- latLonToVec3
\* Angles are whole degrees, multiples of 30; a sine or cosine is a count of
\* 1/FRAC; a length is a count of 1/LEN.

\* Math.sin(d * DEG2RAD)
DegSin(d) ==
    LET m == d % 360
    IN  CASE m \in {0, 180} -> 0
          [] m \in {30, 150} -> FRAC \div 2
          [] m \in {60, 120} -> 866025
          [] m = 90 -> FRAC
          [] m \in {210, 330} -> -(FRAC \div 2)
          [] m \in {240, 300} -> -866025
          [] m = 270 -> -FRAC

\* Math.cos(d * DEG2RAD)
DegCos(d) == DegSin(d + 90)

\* Mutant of latLonToVec3: the polar angle taken as the latitude itself.
latLonToVec3FromEquator(lat, lon, radius, altitude) ==
    LET r == radius + altitude
        phi == lat
        theta == lon + 180
    IN  << MulF(MulF(-r, DegSin(phi)), DegCos(theta)),
           MulF(r, DegCos(phi)),
           MulF(MulF(r, DegSin(phi)), DegSin(theta)) >>

\* latLonToVec3 of utils/latLongToVec.js: <<x, y, z>>
latLonToVec3(lat, lon, radius, altitude) ==
    LET r == radius + altitude
        phi == 90 - lat
        theta == lon + 180
    IN  << MulF(MulF(-r, DegSin(phi)), DegCos(theta)),
           MulF(r, DegCos(phi)),
           MulF(MulF(r, DegSin(phi)), DegSin(theta)) >>

\* latLonToVec3 of wonderLabel.jsx, the copy WonderCallout calls
latLonToVec3Local(lat, lon, radius, altitude) ==
    LET r == radius + altitude
        phi == 90 - lat
        theta == lon + 180
    IN  << MulF(MulF(-r, DegSin(phi)), DegCos(theta)),
           MulF(r, DegCos(phi)),
           MulF(MulF(r, DegSin(phi)), DegSin(theta)) >>

\* Both copies applied to the arguments c.
Projected(c) ==
    /\ surface = latLonToVec3Local(c.lat, c.lon, c.radius, c.altitude)
    /\ point = latLonToVec3(c.lat, c.lon, c.radius, c.altitude)

\* The anchor of a callout that is mounted and keeps its place: radius 2
\* and dotOffset 0.015, the defaults of WonderCallout.
AnchorInit ==
    /\ coords = [lat |-> 30, lon |-> 30, radius |-> 2 * LEN, altitude |-> 150]
    /\ Projected(coords)

\* -------------------------------------------------------- WonderCallout
paddingX == 1600
paddingY == 1400
minImgW == 8000
maxImgW == 10000
gapY == 600
bgPadX == 200
bgPadTop == 200
bgPadBottom == 500
ScaleFloor == ONE \div 10000   \* 0.0001, the floor of the applied image scale
HoverTitleScale == 122000
HoverLineOpacity == 45000
RestLineOpacity == 90000

\* a / b rounded to nearest, b > 0
RoundDiv(a, b) == (a + (b \div 2)) \div b

Clamp(v, lo, hi) == Max(lo, Min(hi, v))

\* Image layout of a render with text block size bs and aspect asp
\* (lines 98-122).
ImgW(bs) == Clamp(bs[1], minImgW, maxImgW)
ImgH(bs, asp) == RoundDiv(ImgW(bs) * asp[2], asp[1])
\* imgYFixed = -(h / 2 + gapY) - imgH / 2, doubled to stay whole
ImgYFixed2(bs, asp) == -(bs[2] + 2 * gapY) - ImgH(bs, asp)
BgBaseW(bs) == bs[1] + bgPadX * 2
BgBaseH(bs) == bs[2] + bgPadTop * 2

\* Mutant of ResetAnimated: the effect without its line for open.current.
ResetKeepsOpen ==
    /\ open' = open
    /\ imgOpacity' = 0
    /\ imgScale' = 0
    /\ titleScale' = ONE
    /\ lineOpacity' = RestLineOpacity
    /\ titleGroupScale' = ONE
    /\ imgMatOpacity' = 0
    /\ bgScaleX' = ONE
    /\ bgScaleY' = ONE
    /\ bgPosY' = 0
    /\ UNCHANGED <<anchorScale, linePinOpacity>>

\* The init effect ([imgYFixed], lines 144-160) over the animated state.
ResetAnimated ==
    /\ open' = 0
    /\ imgOpacity' = 0
    /\ imgScale' = 0
    /\ titleScale' = ONE
    /\ lineOpacity' = RestLineOpacity
    /\ titleGroupScale' = ONE
    /\ imgMatOpacity' = 0
    /\ bgScaleX' = ONE
    /\ bgScaleY' = ONE
    /\ bgPosY' = 0
    /\ UNCHANGED <<anchorScale, linePinOpacity>>

\* A render with a new layout: the init effect runs if imgYFixed changed.
Relayout(bs, asp) ==
    /\ baseSize' = bs
    /\ imgAspect' = asp
    /\ IF ImgYFixed2(bs, asp) # ImgYFixed2(baseSize, imgAspect)
       THEN ResetAnimated
       ELSE UNCHANGED <<open, imgOpacity, imgScale, titleScale, lineOpacity,
                        titleGroupScale, imgMatOpacity, bgScaleX, bgScaleY,
                        bgPosY, anchorScale, linePinOpacity>>

\* State after construction and the mount effects; the image anchor group
\* has the scale 1 of a new Object3D until the first frame.
CalloutInit ==
    /\ hovered = FALSE
    /\ baseSize = <<6000, 2600>>
    /\ imgAspect = <<16, 9>>
    /\ open = 0
    /\ imgOpacity = 0
    /\ imgScale = 0
    /\ titleScale = ONE
    /\ lineOpacity = RestLineOpacity
    /\ bgScaleX = ONE
    /\ bgScaleY = ONE
    /\ bgPosY = 0
    /\ imgMatOpacity = 0
    /\ anchorScale = ONE
    /\ titleGroupScale = ONE
    /\ linePinOpacity = RestLineOpacity
    /\ cticks = 0

\* onPointerOver / onPointerOut of the card (lines 79-80).
OnEnter ==
    /\ ~hovered
    /\ hovered' = TRUE
    /\ UNCHANGED <<baseSize, imgAspect, open, imgOpacity, imgScale, titleScale,
                   lineOpacity, bgScaleX, bgScaleY, bgPosY, imgMatOpacity,
                   anchorScale, titleGroupScale, linePinOpacity, cticks>>
    /\ UNCHANGED ovars
    /\ UNCHANGED pvars

OnLeave ==
    /\ hovered
    /\ hovered' = FALSE
    /\ UNCHANGED <<baseSize, imgAspect, open, imgOpacity, imgScale, titleScale,
                   lineOpacity, bgScaleX, bgScaleY, bgPosY, imgMatOpacity,
                   anchorScale, titleGroupScale, linePinOpacity, cticks>>
    /\ UNCHANGED ovars
    /\ UNCHANGED pvars

\* onTextSync (lines 67-74): the text block was laid out.
OnTextSync ==
    /\ \E b \in TextBlocks :
          LET bs == <<b[1] + paddingX, b[2] + paddingY>>
          IN  bs # baseSize /\ Relayout(bs, imgAspect)
    /\ UNCHANGED <<hovered, cticks>>
    /\ UNCHANGED ovars
    /\ UNCHANGED pvars

\* img.onload (line 94): the natural size of the image is known.
OnImageLoad ==
    /\ \E sz \in ImageSizes : sz # imgAspect /\ Relayout(baseSize, sz)
    /\ UNCHANGED <<hovered, cticks>>
    /\ UNCHANGED ovars
    /\ UNCHANGED pvars

\* --- the useFrame callback (lines 163-209) ----------------------------
\* Mutant of NeededW: the image width taken even where the text is wider.
NeededWNoMax == ImgW(baseSize) + bgPadX * 2

\* Mutant of TargetScale: the collapsed title scaled like the collapsed image.
TargetScaleFromZero(h) == IF h THEN HoverTitleScale ELSE 0

\* Mutant of TargetOpen: the callout opens whether hovered or not.
TargetOpenAlways(h) == ONE

TargetOpen(h) == IF h THEN ONE ELSE 0
TargetScale(h) == IF h THEN HoverTitleScale ELSE ONE
TargetLineOpacity(h) == IF h THEN HoverLineOpacity ELSE RestLineOpacity

\* x || d
OrDefault(x, d) == IF x = 0 THEN d ELSE x

\* extraH for the open amount o; scaleY = (bgBaseH + extraH) / bgBaseH
ExtraH(o) == RoundDiv((ImgH(baseSize, imgAspect) + gapY + bgPadBottom) * o, ONE)
ScaleYFor(o) == ONE + RoundDiv(ExtraH(o) * ONE, BgBaseH(baseSize))

\* Mutant of PosYFor: the panel moved down by all of its growth.
PosYForFull(o) == -(ExtraH(o) * (ONE \div LEN))

\* -(extraH / 2), in 1/ONE
PosYFor(o) == -((ExtraH(o) * (ONE \div LEN)) \div 2)

NeededW == Max(BgBaseW(baseSize), ImgW(baseSize) + bgPadX * 2)
WidenedW(o) == Lerp(BgBaseW(baseSize), NeededW, o * (FRAC \div ONE))
ScaleXFor(o) == RoundDiv(WidenedW(o) * ONE, BgBaseW(baseSize))

\* Mutant of AppliedScale: the image scale applied as it is.
AppliedScaleUnfloored(sc) == sc

\* const s = Math.max(0.0001, imgScale.current)
AppliedScale(sc) == Max(ScaleFloor, sc)

CalloutFrame(dt) ==
    LET o == Damp(open, TargetOpen(hovered), 6000, dt)
        io == Damp(imgOpacity, o, 10000, dt)
        is == Damp(imgScale, o, 10000, dt)
        ts == Damp(titleScale, TargetScale(hovered), 8000, dt)
        lo == Damp(lineOpacity, TargetLineOpacity(hovered), 8000, dt)
    IN  /\ open' = o
        /\ imgOpacity' = io
        /\ imgScale' = is
        /\ imgMatOpacity' = io
        /\ anchorScale' = AppliedScale(is)
        /\ titleScale' = ts
        /\ titleGroupScale' = ts
        /\ bgScaleY' = Damp(OrDefault(bgScaleY, ONE), ScaleYFor(o), 10000, dt)
        /\ bgPosY' = Damp(OrDefault(bgPosY, 0), PosYFor(o), 10000, dt)
        /\ bgScaleX' = Damp(OrDefault(bgScaleX, ONE), ScaleXFor(o), 10000, dt)
        /\ lineOpacity' = lo
        /\ linePinOpacity' = lo

CalloutTick ==
    /\ cticks < MaxCalloutTicks
    /\ \E dt \in DtSet : CalloutFrame(dt)
    /\ cticks' = cticks + 1
    /\ UNCHANGED <<hovered, baseSize, imgAspect>>
    /\ UNCHANGED ovars
    /\ UNCHANGED pvars

\* ------------------------------------------------------ specifications
\* The overlay, with a callout that is mounted and left alone.
Init == OverlayInit /\ CalloutInit /\ AnchorInit

Next == ActiveChanged \/ ProgressChanged \/ Tick

Spec == Init /\ [][Next]_vars

\* The callout, beside an overlay with the default props that is still
\* loading.
CalloutSpecInit ==
    /\ OverlayInit
    /\ active
    /\ props.delay = 600
    /\ CalloutInit
    /\ AnchorInit

CalloutNext == OnEnter \/ OnLeave \/ OnTextSync \/ OnImageLoad \/ CalloutTick

CalloutSpec == CalloutSpecInit /\ [][CalloutNext]_vars

\* The overlay mounted with durations that are not positive.
SnapInit == OverlayInitWith(SnapProps) /\ CalloutInit /\ AnchorInit

SnapSpec == SnapInit /\ [][Next]_vars

\* --------------------------------------- the Canvas frame, both machines
\* The overlay and the callouts are mounted in one Canvas (App.jsx): its
\* render loop calls both frame callbacks with the same delta.
CanvasFrame ==
    /\ ticks < MaxFrames
    /\ \E dt \in DtSet :
          /\ now' = now + dt
          /\ FrameBody(dt, now + dt)
          /\ CalloutFrame(dt)
    /\ ticks' = ticks + 1
    /\ cticks' = cticks + 1
    /\ UNCHANGED <<props, active, progress, holdUntil, holdEntered, wasInactive>>
    /\ UNCHANGED <<hovered, baseSize, imgAspect>>
    /\ UNCHANGED pvars

FrameNext == ActiveChanged \/ OnEnter \/ OnLeave \/ OnImageLoad \/ CanvasFrame

FrameSpec == Init /\ [][FrameNext]_vars

\* ---------------------------------------------- the overlay, unbounded
\* Frames without end, for the liveness of the fade: the loaders finish once
\* and active stays false; every frame has a positive delta, that of a
\* 240 Hz display or of a stalled tab.  holdUntil is read in hold only and
\* written on every entry into hold, so outside hold the clock is kept
\* modulo LiveClockWrap, which keeps the state space finite and changes no
\* comparison the frame makes.
LiveDtSet == {4, 1000}
LiveClockWrap == 8

LoadersFinish == active /\ ActiveChanged

LiveTick ==
    /\ \E dt \in LiveDtSet :
          /\ FrameBody(dt, now + dt)
          /\ now' = IF phase' = "hold" THEN now + dt ELSE (now + dt) % LiveClockWrap
    /\ UNCHANGED <<props, active, progress, holdUntil, holdEntered, wasInactive, ticks>>
    /\ UNCHANGED cvars
    /\ UNCHANGED pvars

LiveNext == LoadersFinish \/ LiveTick

\* The render loop calls the frame callback for as long as the page lives.
LiveSpec == Init /\ [][LiveNext]_vars /\ WF_vars(LiveTick)

\* ------------------------------------------ the callout, unbounded
\* Frames without end, for the hover round trip: the pointer enters a
\* collapsed callout, stays for any number of frames and leaves; every
\* frame has a positive delta.
\* Frame deltas (ms) of the round trip: the frames of a 60 Hz display.
HoverDtSet == {16}

Collapsed ==
    /\ open = 0 /\ imgOpacity = 0 /\ imgScale = 0
    /\ titleScale = ONE /\ lineOpacity = RestLineOpacity

HoverStart == Collapsed /\ OnEnter

RoundTripTick ==
    /\ \E dt \in HoverDtSet : CalloutFrame(dt)
    /\ UNCHANGED <<hovered, baseSize, imgAspect, cticks>>
    /\ UNCHANGED ovars
    /\ UNCHANGED pvars

RoundTripNext == HoverStart \/ OnLeave \/ RoundTripTick

\* The render loop calls the frame callback for as long as the page lives.
RoundTripSpec == CalloutSpecInit /\ [][RoundTripNext]_vars /\ WF_vars(RoundTripTick)

\* ------------------------------------------------ the projection alone
\* Arguments of latLonToVec3: latitudes pole to pole, longitudes around the
\* globe, two radii, with and without altitude.
LatSet == {-90, -60, -30, 0, 30, 60, 90}
LonSet == {-180, -150, -120, -90, -60, -30, 0, 30, 60, 90, 120, 150, 180}
RadiusSet == {LEN, 2 * LEN}
AltitudeSet == {0, 150}

CoordSet == [lat : LatSet, lon : LonSet, radius : RadiusSet, altitude : AltitudeSet]

ProjInit ==
    /\ OverlayInit /\ active /\ props.delay = 600
    /\ CalloutInit
    /\ coords \in CoordSet
    /\ Projected(coords)

\* Another callout is placed: both copies are applied to its arguments.
Project ==
    /\ \E c \in CoordSet :
          /\ c # coords
          /\ coords' = c
          /\ surface' = latLonToVec3Local(c.lat, c.lon, c.radius, c.altitude)
          /\ point' = latLonToVec3(c.lat, c.lon, c.radius, c.altitude)
    /\ UNCHANGED ovars
    /\ UNCHANGED cvars

ProjSpec == ProjInit /\ [][Project]_vars

\* ------------------------------------------------- claims: the overlay
\* A step of Spec that is a frame, and the frame delta it was given.
TickStep == ticks' = ticks + 1
StepDt == now' - now

\* The value the frame assigns to phase.current at line 85, when it runs.
MidPhase == IF Skipped THEN phase ELSE PhaseAfterHold(now')

\* A phase change the machine allows.
Forward(p, q) ==
    \/ p = q
    \/ p = "loading" /\ q = "hold"
    \/ p = "hold" /\ q = "fading"
    \/ p = "fading" /\ q = "done"
    \/ p \in {"hold", "fading", "done"} /\ q = "loading"

\* C1: every assignment to phase.current is loading->hold, hold->fading,
\* fading->done or a re-entry X->loading from hold, fading or done.  A frame
\* assigns twice (line 85, then line 105), and both assignments are held to
\* this, so that hold->fading->done within one frame counts as two changes.
C1_PhaseChangesForward ==
    [][IF TickStep
       THEN Forward(phase, MidPhase) /\ Forward(MidPhase, phase')
       ELSE Forward(phase, phase')]_vars

\* C1 witness: hold entered again after a whole cycle: alpha below the end
\* condition shows that fading and done were passed before the re-entry.
C1_Witness == phase = "hold" /\ uAlpha < DoneEps /\ ticks > 0

\* C2: hold->fading happens on a frame whose clock is at or past the latest
\* hold entry plus delay; phase is never fading before it; and in hold the
\* stored deadline is the one of the latest hold entry.
C2_HoldDeadline ==
    /\ [](phase = "hold" => holdUntil = holdEntered + props.delay)
    /\ [](phase = "fading" => now >= holdEntered + props.delay)
    /\ [][TickStep /\ phase = "hold" /\ MidPhase = "fading"
            => now' >= holdEntered + props.delay]_vars

\* C2 witness: a second hold, entered at a later clock than the first, has
\* run out and the machine is fading.
C2_Witness == phase = "fading" /\ holdEntered > 0 /\ now >= holdEntered + props.delay

\* C4: whenever active is true the phase is loading: the effect that runs
\* with the change of active leaves no state, for a frame to act on, in which
\* active is true and the phase is hold, fading or done.
C4_ReentryToLoading ==
    /\ [](active => phase = "loading")
    /\ [][~active /\ active' => phase' = "loading"]_vars

\* C4 witness: re-entry from done of an overlay that has finished and
\* returned null (unmountOnEnd).
C4_Witness == active /\ phase = "loading" /\ done /\ props.unmountOnEnd

\* A step on which the phase enters done.
EntersDone == phase # "done" /\ phase' = "done"

\* C5 as claimed: setDone(true) is called on exactly the steps that move the
\* phase into done, and at most once.
C5_FinishedOnEveryDone ==
    [][(finished' = finished + 1 <=> EntersDone)
       /\ (finished' # finished => finished' = finished + 1)
       /\ finished' <= 1]_vars

\* C5 amended: with unmountOnEnd, setDone(true) is called on exactly the step
\* that moves the phase into done and never a second time; without
\* unmountOnEnd it is never called.
C5_FinishedOnceIfUnmount ==
    [][(finished' = finished + 1 <=> (EntersDone /\ props.unmountOnEnd))
       /\ (finished' # finished => finished' = finished + 1)
       /\ finished' <= 1
       /\ (done' <=> finished' = 1)]_vars

\* C5 witness: finished once, then active again and inactive again.
C5_Witness == finished = 1 /\ phase = "hold" /\ ticks >= 2

\* v lies between x and the target T, ends included.
Between(x, v, T) == Min(x, T) <= v /\ v <= Max(x, T)

\* The alpha target the claims ascribe to a phase.
ClaimedAlphaTarget(ph) == IF ph \in {"loading", "hold"} THEN ONE ELSE 0

\* C6 as claimed: on every frame the value written to uAlpha is alpha damped
\* toward 1 in loading and hold and toward 0 in fading and done (the phase
\* taken after the hold->fading check), and alpha gets no farther from it.
C6_DampedOnEveryTick ==
    [][TickStep =>
         LET T == ClaimedAlphaTarget(PhaseAfterHold(now'))
         IN  /\ uAlpha' = Damp(alpha, T, FadeRate, StepDt)
             /\ Abs(T - alpha') <= Abs(T - alpha)]_vars

\* C6 amended: on every frame that the early return (done and unmountOnEnd)
\* does not skip, the value written to uAlpha lies between alpha and the
\* target of the phase, strictly nearer to it when time has passed and alpha
\* is 0.01 or more away, and alpha is either kept or set to that value; on a
\* skipped frame alpha and uAlpha stay as they are, whatever the phase.
C6_DampedUnlessSkipped ==
    [][TickStep =>
         IF done /\ props.unmountOnEnd
         THEN alpha' = alpha /\ uAlpha' = uAlpha
         ELSE LET T == ClaimedAlphaTarget(MidPhase)
              IN  /\ Between(alpha, uAlpha', T)
                  /\ alpha' \in {alpha, uAlpha'}
                  /\ (StepDt > 0 /\ Abs(T - alpha) >= DoneEps
                        => Abs(T - uAlpha') < Abs(T - alpha))]_vars

\* C6 witness: in loading after a fade, the latest frame computed a value
\* above alpha, nearer to 1.
C6_Witness == phase = "loading" /\ alpha < ONE /\ uAlpha > alpha

\* C7 as claimed: on a frame with active true and raw progress not below
\* what the previous frame read, displayProgress does not decrease.
C7_DisplayNeverDecreases ==
    [][TickStep /\ active /\ progress >= rawSeen
         => displayRef' >= displayRef /\ display' >= display]_vars

\* C7 amended: on a frame with active true, displayProgress does not decrease
\* if it is at most loadingCap, whether or not raw progress decreased; if it
\* is above loadingCap (an inactive period drove it toward 1) it moves down,
\* not below loadingCap.
C7_DisplayMonotoneUnderCap ==
    [][TickStep /\ active =>
         IF displayRef <= loadingCap
         THEN displayRef' >= displayRef /\ display' >= display
         ELSE loadingCap <= displayRef' /\ displayRef' <= displayRef]_vars

\* C7 witness: raw progress fell from 100 to 0, a frame ran on the lower
\* value, and displayProgress kept what it had reached.
C7_Witness ==
    active /\ ~wasInactive /\ progress = 0 /\ rawSeen = 0 /\ displayRef > ONE \div 2

\* C8 as claimed: whenever active is true, displayProgress is at most
\* loadingCap.
C8_CapWhileActive == active => displayRef <= loadingCap /\ display <= loadingCap

\* C8 amended: while active has been true ever since mount, displayProgress
\* is at most loadingCap whatever raw progress is, and with raw progress 100
\* a frame that runs (the early return does not skip it) moves it up toward
\* loadingCap, not past it; after an inactive period a frame with active true
\* never raises it above the larger of loadingCap and its previous value.
C8_CapUntilInactive ==
    /\ [](active /\ ~wasInactive => displayRef <= loadingCap /\ display <= loadingCap)
    /\ [][TickStep /\ active =>
            /\ displayRef' <= Max(loadingCap, displayRef)
            /\ ((progress = 100 /\ StepDt > 0 /\ loadingCap - displayRef >= DoneEps
                   /\ ~(done /\ props.unmountOnEnd))
                  => (displayRef < displayRef' /\ displayRef' <= loadingCap))]_vars

\* C8 witness: active since mount, raw progress 100, displayProgress within
\* 0.001 of loadingCap.
C8_Witness ==
    active /\ ~wasInactive /\ progress = 100 /\ displayRef > loadingCap - 100

\* C9: phase is one of the four names, and displayProgress (ref and state),
\* alpha and uAlpha are in [0, 1].
C9_OverlayRanges ==
    /\ phase \in {"loading", "hold", "fading", "done"}
    /\ displayRef \in 0..ONE /\ display \in 0..ONE
    /\ alpha \in 0..ONE /\ uAlpha \in 0..ONE

\* C9 witness: fading with alpha and displayProgress strictly inside (0, 1).
C9_Witness ==
    phase = "fading" /\ 0 < uAlpha /\ uAlpha < ONE /\ 0 < displayRef /\ displayRef < ONE

\* C3: once active is false for good and frames keep coming with a positive
\* delta, the phase eventually is done: alpha does not stay at 0.01 or more
\* in fading for ever.
C3_FadeReachesDone == <>[](~active) => <>(phase = "done")

\* C21: once setDone(true) has been called (unmountOnEnd), done stays true,
\* so the overlay stays removed, and every later frame leaves alpha, uAlpha,
\* displayProgress (ref and state) and the exposure as they are and assigns
\* no phase, also after active has turned true again and the effect has set
\* the phase back to loading.
C21_FinishedOverlayFrozen ==
    /\ [](done => props.unmountOnEnd)
    /\ [][done => done']_vars
    /\ [][TickStep /\ done
            => /\ alpha' = alpha /\ uAlpha' = uAlpha
               /\ displayRef' = displayRef /\ display' = display
               /\ exposure' = exposure
               /\ phase' = phase]_vars

\* C21 witness: after the overlay has finished, active turned true and false
\* again and a frame came past the new deadline: the hold has not ended.
C21_Witness ==
    /\ done /\ props.unmountOnEnd /\ props.animateExposure
    /\ phase = "hold" /\ holdEntered > 0 /\ now > holdUntil

\* ------------------------------------------------- claims: the callout
\* C10: after any frames, hover events and layout changes, openAmount,
\* imageOpacity and imageScale are in [0, 1], titleScale is in [1, 1.22] and
\* lineOpacity is in [0.45, 0.9].
C10_CalloutRanges ==
    /\ open \in 0..ONE
    /\ imgOpacity \in 0..ONE
    /\ imgScale \in 0..ONE
    /\ titleScale \in ONE..HoverTitleScale
    /\ lineOpacity \in HoverLineOpacity..RestLineOpacity

\* C10 witness: hover ended on a half-open callout after a layout change:
\* every quantity is strictly inside its range.
C10_Witness ==
    /\ ~hovered /\ cticks >= 2 /\ baseSize # <<6000, 2600>>
    /\ 0 < open /\ open < ONE
    /\ 0 < imgOpacity /\ imgOpacity < ONE
    /\ 0 < imgScale /\ imgScale < ONE
    /\ ONE < titleScale /\ titleScale < HoverTitleScale
    /\ HoverLineOpacity < lineOpacity /\ lineOpacity < RestLineOpacity

\* The distance of a field from its target after the step is no larger than
\* its distance from that target before the step.
NoFarther(v, w, T) == Abs(w - T) <= Abs(v - T)

\* C11: no step of the callout (frame, hover event, text sync, image load)
\* moves openAmount, titleScale or lineOpacity away from the value implied
\* by the hover boolean the step leaves.
C11_StepsMoveTowardTarget ==
    [][/\ NoFarther(open, open', TargetOpen(hovered'))
       /\ NoFarther(titleScale, titleScale', TargetScale(hovered'))
       /\ NoFarther(lineOpacity, lineOpacity', TargetLineOpacity(hovered'))]_vars

\* The tolerance of the round trip, 0.001.
RoundTripEps == ONE \div 1000

NearCollapsed ==
    /\ open <= RoundTripEps /\ imgOpacity <= RoundTripEps /\ imgScale <= RoundTripEps
    /\ titleScale - ONE <= RoundTripEps
    /\ RestLineOpacity - lineOpacity <= RoundTripEps

\* C12: from the collapsed state, once the pointer has left for good after
\* a hover of any length, openAmount, imageOpacity, imageScale, titleScale
\* and lineOpacity come back to within 0.001 of (0, 0, 0, 1, 0.9) and stay.
C12_HoverRoundTrip == <>[](~hovered) => <>[]NearCollapsed

\* C12 witness: back within the tolerance after a hover that moved the
\* fields (they are not exactly the collapsed values).
C12_Witness == ~hovered /\ NearCollapsed /\ ~Collapsed /\ open > 0 /\ titleScale > ONE

\* C13: the applied panel scale is never below 1 in x or in y, and neither
\* is the scale the frame computes for the current openAmount: the panel is
\* never narrower than bgBaseW nor lower than bgBaseH.
C13_PanelNotBelowBase ==
    /\ bgScaleX >= ONE /\ bgScaleY >= ONE
    /\ ScaleXFor(open) >= ONE /\ ScaleYFor(open) >= ONE

\* C13 witness: a panel grown in both directions and shrinking again, after
\* the image was loaded.
C13_Witness ==
    /\ ~hovered /\ open > 0 /\ imgAspect # <<16, 9>>
    /\ bgScaleX > ONE /\ bgScaleY > ONE

\* Twice the distance of the panel's top edge from the collapsed top edge,
\* position.y + scale.y * bgBaseH / 2 - bgBaseH / 2, in 1/ONE.
TopEdgeShift2 ==
    2 * bgPosY + RoundDiv((bgScaleY - ONE) * BgBaseH(baseSize), LEN)

\* What rounding to 1/ONE on every frame can add up to: 0.0001.
TopEdgeTol2 == ONE \div 10000

\* C14: in every state the top edge of the panel is where the collapsed
\* panel has it: the damped offset and the damped height scale stay in step.
C14_TopEdgeFixed == Abs(TopEdgeShift2) <= TopEdgeTol2

\* C14 witness: a panel grown downward by more than 0.1, after frames, a
\* layout reset and a hover.
C14_Witness ==
    /\ cticks >= 2 /\ baseSize # <<6000, 2600>>
    /\ bgPosY < -(ONE \div 10) /\ bgScaleY > ONE

\* C15: with animateExposure, a frame that is not skipped leaves
\* toneMappingExposure at lerp(exposureFrom, exposureTo, 1 - a) for the a it
\* wrote to uAlpha, which lies between exposureFrom and exposureTo; from one
\* such frame to the next the exposure does not fall when a does not rise.
C15_ExposureFollowsAlpha ==
    /\ [](props.animateExposure /\ ticks > 0
            => /\ exposure = ExposureFor(uAlpha)
               /\ exposureFrom <= exposure /\ exposure <= exposureTo)
    /\ [][TickStep /\ props.animateExposure /\ ~Skipped
            => /\ exposure' = Lerp(exposureFrom, exposureTo, (ONE - uAlpha') * (FRAC \div ONE))
               /\ (ticks > 0 /\ uAlpha' <= uAlpha => exposure' >= exposure)
               /\ (uAlpha' = 0 => exposure' = exposureTo)
               /\ (uAlpha' = ONE => exposure' = exposureFrom)]_vars

\* C15 witness: faded out with animateExposure, after frames in hold, the
\* exposure strictly between exposureFrom and exposureTo.
C15_Witness ==
    /\ props.animateExposure /\ phase \in {"fading", "done"} /\ ticks >= 2
    /\ 0 < uAlpha /\ uAlpha < ONE
    /\ exposureFrom < exposure /\ exposure < exposureTo

\* A step that runs the callout's frame callback.
CalloutTickStep == cticks' = cticks + 1

\* C16: on every frame, each damped quantity ends between the value it had
\* and the target the frame used for it, ends included: alpha and
\* displayProgress of the overlay (kept on a skipped frame); openAmount,
\* imageOpacity, imageScale, titleScale, lineOpacity and the panel's scale
\* and offset of the callout.
C16_NoOvershoot ==
    [][/\ TickStep =>
            /\ Between(displayRef, displayRef', DisplayTarget)
            /\ display' \in {display, displayRef'}
            /\ Between(alpha, uAlpha', TargetAlpha(MidPhase))
            /\ Between(alpha, alpha', TargetAlpha(MidPhase))
       /\ CalloutTickStep =>
            /\ Between(open, open', TargetOpen(hovered))
            /\ Between(imgOpacity, imgOpacity', open')
            /\ Between(imgScale, imgScale', open')
            /\ Between(titleScale, titleScale', TargetScale(hovered))
            /\ Between(lineOpacity, lineOpacity', TargetLineOpacity(hovered))
            /\ Between(bgScaleY, bgScaleY', ScaleYFor(open'))
            /\ Between(bgPosY, bgPosY', PosYFor(open'))
            /\ Between(bgScaleX, bgScaleX', ScaleXFor(open'))]_vars

\* C16 witness: frames have moved both machines part of the way: the overlay
\* fading, the callout opening.
C16_Witness ==
    /\ ticks >= 2 /\ phase = "fading" /\ 0 < alpha /\ alpha < ONE
    /\ 0 < displayRef /\ displayRef < ONE
    /\ hovered /\ 0 < open /\ open < ONE /\ 0 < imgScale /\ imgScale < open
    /\ bgScaleY > ONE /\ bgPosY < 0

\* The tolerance of the composition: the 0.0001 below which the program
\* itself takes a value as unchanged.
ComposeTol == StateEps

\* C17: from every reachable state in which frames run, and for a fixed
\* target, a frame of delta a followed by a frame of delta b leaves the
\* alpha state and displayProgress within the tolerance of what one frame of
\* delta a + b leaves.
C17_TimeStepsCompose ==
    ~Skipped => \A a \in DtSet, b \in DtSet :
       LET T == TargetAlpha(phase)
           D == DisplayTarget
       IN  /\ Abs(AlphaAfter(AlphaAfter(alpha, T, a), T, b) - AlphaAfter(alpha, T, a + b))
                <= ComposeTol
           /\ Abs(DisplayAfter(DisplayAfter(displayRef, D, a), D, b)
                    - DisplayAfter(displayRef, D, a + b)) <= ComposeTol

\* C18 as claimed: a fade that is not positive gives the rate 9999, never a
\* quotient by it, and a frame with time passed (16 ms or more here) then
\* writes the target itself to uAlpha, leaves the alpha state within 0.0001
\* of it and takes fading to done; with a delay that is not positive a frame
\* that finds the phase in hold ends the hold, whatever its delta.
C18_SnapsOnEveryFrame ==
    /\ [](FadeRate > 0 /\ (props.fade <= 0 => FadeRate = 9999000))
    /\ [][TickStep /\ props.fade <= 0 /\ StepDt > 0
            => /\ uAlpha' = TargetAlpha(PhaseAfterHold(now'))
               /\ Abs(alpha' - TargetAlpha(PhaseAfterHold(now'))) <= StateEps
               /\ (PhaseAfterHold(now') = "fading" => phase' = "done")]_vars
    /\ [][TickStep /\ props.delay <= 0 /\ phase = "hold"
            => phase' \in {"fading", "done"}]_vars

\* C18 amended: the same on every frame that the early return (done and
\* unmountOnEnd) does not skip; a skipped frame leaves alpha, uAlpha and the
\* phase as they are, so that a hold entered after the overlay has finished
\* does not end.
C18_SnapsUnlessSkipped ==
    /\ [](FadeRate > 0 /\ (props.fade <= 0 => FadeRate = 9999000))
    /\ [][TickStep /\ ~Skipped /\ props.fade <= 0 /\ StepDt > 0
            => /\ uAlpha' = TargetAlpha(MidPhase)
               /\ Abs(alpha' - TargetAlpha(MidPhase)) <= StateEps
               /\ (MidPhase = "fading" => phase' = "done")]_vars
    /\ [][TickStep /\ ~Skipped /\ props.delay <= 0 /\ phase = "hold"
            => MidPhase = "fading" /\ phase' \in {"fading", "done"}]_vars
    /\ [][TickStep /\ Skipped
            => phase' = phase /\ alpha' = alpha /\ uAlpha' = uAlpha]_vars

\* C18 witness: with a negative delay and a negative fade, the first frame
\* after mount ended the hold and the fade.
C18_Witness ==
    /\ props.delay < 0 /\ props.fade < 0
    /\ ticks = 1 /\ now > 0 /\ phase = "done" /\ uAlpha = 0 /\ alpha = 0

\* C20: the scale on the image anchor group is never below 0.0001, not
\* even with the callout collapsed and imageScale 0; it is imageScale
\* itself whenever imageScale is 0.0001 or more; and every frame applies
\* the larger of 0.0001 and the imageScale it has just computed.
C20_ImageScaleFloor ==
    /\ [](anchorScale >= ONE \div 10000)
    /\ [](imgScale >= ONE \div 10000 => anchorScale = imgScale)
    /\ [][CalloutTickStep =>
            /\ anchorScale' >= ONE \div 10000
            /\ anchorScale' >= imgScale'
            /\ anchorScale' \in {imgScale', ONE \div 10000}]_vars

\* C20 witness: a frame ran on the collapsed callout: imageScale is 0 and
\* the applied scale is the floor.
C20_Witness == cticks >= 1 /\ imgScale = 0 /\ anchorScale = ONE \div 10000

\* The animated state as the init effect leaves it.
ResetValues ==
    /\ Collapsed
    /\ titleGroupScale = ONE /\ imgMatOpacity = 0
    /\ bgScaleX = ONE /\ bgScaleY = ONE /\ bgPosY = 0

\* C22: a step that changes imgYFixed (a text sync or an image load) leaves
\* openAmount 0, imageOpacity 0, imageScale 0, titleScale 1, lineOpacity 0.9,
\* the panel scale (1, 1) and its offset 0, and leaves hovered as it is; the
\* frame after it starts from these values: it damps openAmount from 0 toward
\* the hover target and the image toward the new openAmount.
C22_LayoutChangeResets ==
    /\ [][ImgYFixed2(baseSize', imgAspect') # ImgYFixed2(baseSize, imgAspect)
            => ResetValues' /\ hovered' = hovered]_vars
    /\ [][CalloutTickStep /\ ResetValues
            => \E dt \in DtSet :
                  /\ open' = Damp(0, TargetOpen(hovered), 6000, dt)
                  /\ imgOpacity' = Damp(0, open', 10000, dt)
                  /\ imgScale' = Damp(0, open', 10000, dt)
                  /\ titleScale' = Damp(ONE, TargetScale(hovered), 8000, dt)
                  /\ lineOpacity' = Damp(RestLineOpacity, TargetLineOpacity(hovered), 8000, dt)]_vars

\* C22 witness: the layout changed under the pointer after frames had opened
\* the callout: hovered, yet every animated value is back at its collapsed
\* value, while the leader line still shows the opacity of the last frame.
C22_Witness ==
    /\ hovered /\ cticks >= 1 /\ ResetValues
    /\ linePinOpacity < RestLineOpacity /\ anchorScale < ONE

\* ---------------------------------------------- claims: the projection
\* C19: at latitude 90 with altitude 0 both copies of latLonToVec3 give
\* (0, r, 0), whatever the longitude and the radius r.
C19_PoleProjection ==
    coords.lat = 90 /\ coords.altitude = 0
       => /\ point = <<0, coords.radius, 0>>
          /\ surface = <<0, coords.radius, 0>>

\* C19 witness: the pole projected at a longitude whose sine and cosine are
\* both other than 0.
C19_Witness ==
    /\ coords.lat = 90 /\ coords.altitude = 0 /\ coords.lon = 30
    /\ coords.radius = 2 * LEN
    /\ point = <<0, 2 * LEN, 0>> /\ surface = point

====
